---- MODULE Spec2Model ----
(***************************************************************************)
(* Upload-and-extraction pipeline of the EXIF inspector service:           *)
(* the four processing endpoints (analyze, fuji, batch, rename), the       *)
(* upload-size middleware, the exiftool dependency, the transient          *)
(* directory shared by the worker processes and the shutdown cleanup.      *)
(*                                                                         *)
(* A handler never suspends between its first and its last statement       *)
(* (save_upload_file is a coroutine without an await point), so one worker *)
(* process runs one handler at a time; workers are separate processes      *)
(* (run.py --workers, gunicorn) that share the directory temp_uploads and  *)
(* interleave at every file-system call.                                   *)
(***************************************************************************)
EXTENDS Integers, Sequences, FiniteSets, TLC

-----------------------------------------------------------------------------
(* Bounds of the model *)

NumWorkers == 2        \* worker processes sharing the transient directory
MaxFiles == 3          \* longest batch
Excess == 45           \* by how much the long names exceed the length limit

-----------------------------------------------------------------------------
(* Strings are sequences of characters *)

UpperCase == <<"A","B","C","D","E","F","G","H","I","J","K","L","M",
               "N","O","P","Q","R","S","T","U","V","W","X","Y","Z">>
LowerCase == <<"a","b","c","d","e","f","g","h","i","j","k","l","m",
               "n","o","p","q","r","s","t","u","v","w","x","y","z">>

\* str.lower() on one character
LowerChar(c) ==
    IF \E k \in DOMAIN UpperCase : UpperCase[k] = c
    THEN LowerCase[CHOOSE k \in DOMAIN UpperCase : UpperCase[k] = c]
    ELSE c

\* str.lower()
Lower(s) == [k \in DOMAIN s |-> LowerChar(s[k])]

\* str.endswith(suffix)
EndsWith(s, suf) ==
    /\ Len(suf) <= Len(s)
    /\ SubSeq(s, Len(s) - Len(suf) + 1, Len(s)) = suf

\* str.endswith(tuple of suffixes)
EndsWithAny(s, sufs) == \E suf \in sufs : EndsWith(s, suf)

Digit == <<"0","1","2","3","4","5","6","7","8","9">>

\* str(n) of a natural number
RECURSIVE str_int(_)
str_int(n) ==
    IF n < 10 THEN <<Digit[n + 1]>>
    ELSE str_int(n \div 10) \o <<Digit[(n % 10) + 1]>>

\* str(x) of a float that holds a whole number: f"{50.0}" is "50.0"
str_float(n) == str_int(n) \o <<".", "0">>

-----------------------------------------------------------------------------
(* Validation gate *)

image_extensions ==
    { <<".","j","p","g">>, <<".","j","p","e","g">>, <<".","p","n","g">>,
      <<".","r","a","f">>, <<".","t","i","f","f">>, <<".","t","i","f">> }

fuji_extensions ==
    { <<".","j","p","g">>, <<".","j","p","e","g">>, <<".","r","a","f">> }

\* a variant of validate_image_file that compares without filename.lower()
validate_image_file_case_sensitive(filename) ==
    EndsWithAny(filename, image_extensions)

validate_image_file(filename) == EndsWithAny(Lower(filename), image_extensions)

validate_fuji_file(filename) == EndsWithAny(Lower(filename), fuji_extensions)

MAX_FILE_SIZE_MB == 50

\* max_size_mb * 1024 * 1024
max_size_bytes(max_size_mb) == max_size_mb * 1024 * 1024

\* TRUE when validate_file_size raises the 413 HTTPException
SizeNeverRejected(file_size, max_size_mb) == FALSE

\* a variant of validate_file_size that rejects a file of exactly the limit
SizeAtLimitRejected(file_size, max_size_mb) ==
    file_size >= max_size_bytes(max_size_mb)

validate_file_size_raises(file_size, max_size_mb) ==
    file_size > max_size_bytes(max_size_mb)

\* the extension check of the endpoint
type_accepted(op, filename) ==
    IF op = "fuji" THEN validate_fuji_file(filename)
                   ELSE validate_image_file(filename)

-----------------------------------------------------------------------------
(* Exceptions and responses *)

NoExc == [type |-> "none", status_code |-> 0, detail |-> <<>>]

HTTPException(status_code, detail) ==
    [type |-> "HTTPException", status_code |-> status_code, detail |-> detail]

\* an exception that is not an HTTPException (OSError, FileNotFoundError, ...)
OtherException(type) == [type |-> type, status_code |-> 0, detail |-> <<type>>]

NoResp == [status_code |-> 0, detail |-> <<>>, body |-> <<>>]

\* main.py: the two exception handlers of the application
http_exception_handler(exc) ==
    [status_code |-> exc.status_code, detail |-> exc.detail, body |-> <<>>]

general_exception_handler(exc) ==
    [status_code |-> 500, detail |-> <<"An unexpected error occurred">>,
     body |-> <<>>]

ErrorResponse(exc) ==
    IF exc.type = "HTTPException" THEN http_exception_handler(exc)
                                  ELSE general_exception_handler(exc)

OkResponse(body) == [status_code |-> 200, detail |-> <<>>, body |-> body]

\* the value an endpoint returns is validated against its response_model:
\* rename_proposal declares Dict[str, str] and returns a dictionary whose
\* "metadata_used" value is itself a dictionary, so the validation of its
\* response raises (after the finally block has run) and the application
\* answers through its handler for unexpected errors
serialize_response(op, body) ==
    IF op = "rename"
    THEN general_exception_handler(OtherException("ResponseValidationError"))
    ELSE OkResponse(body)

\* the "Unsupported file format" detail of the endpoint
unsupported_detail(op) ==
    IF op = "fuji"
    THEN <<"Unsupported file format. Only Fujifilm images (JPG, RAF) are supported.">>
    ELSE <<"Unsupported file format">>

\* f"File size exceeds maximum allowed size of {max_size_mb} MB"
size_detail_of(max_size_mb) ==
    <<"File size exceeds maximum allowed size of ">> \o str_float(max_size_mb)
        \o <<" MB">>

size_detail == size_detail_of(MAX_FILE_SIZE_MB)

\* the message the endpoint's "except Exception" wraps the error in
processing_prefix(op) ==
    IF op = "fuji" THEN "Error processing Fujifilm image: "
                   ELSE "Error processing file: "

\* a variant of the single-file "except Exception" that blames the client
extraction_error_as_client_error(op, exc) ==
    HTTPException(400, <<processing_prefix(op)>> \o exc.detail)

\* the single-file endpoints: "except Exception as e: raise
\* HTTPException(status_code=500, detail=f"Error processing file: {str(e)}")"
extraction_error(op, exc) ==
    HTTPException(500, <<processing_prefix(op)>> \o exc.detail)

\* analyze_batch, line 244: the outer handler of the loop body
BatchCatchesNothing(exc) == FALSE

except_HTTPException(exc) == exc.type = "HTTPException"

-----------------------------------------------------------------------------
(* Extraction invoker *)

\* metadata records: field name -> value
EmptyRecord == [f \in {} |-> ""]
RecordA == [f \in {"Model"} |-> "X-T4"]
RecordB == [f \in {"Model", "ISO"} |-> IF f = "Model" THEN "X100V" ELSE "400"]

\* what one run of `exiftool -j <path>` can produce: the executable cannot be
\* started, or it exits with a return code and a stdout that is or is not
\* well-formed JSON (an array of records)
NotInvocable ==
    [invocable |-> FALSE, returncode |-> 1, wellformed |-> FALSE, list |-> <<>>]

Ran(returncode, wellformed, list) ==
    [invocable |-> TRUE, returncode |-> returncode, wellformed |-> wellformed,
     list |-> list]

ToolOutcomes ==
    { NotInvocable,
      Ran(1, FALSE, <<>>),                \* error, nothing on stdout
      Ran(1, TRUE, <<RecordA>>),          \* error reported inside the JSON
      Ran(0, FALSE, <<>>),
      Ran(0, TRUE, <<>>),
      Ran(0, TRUE, <<RecordA>>),
      Ran(0, TRUE, <<RecordB, RecordA>>) }

\* exiftool on a path that does not exist: "File not found", exit 1, no JSON
FileNotFoundOutcome == Ran(1, FALSE, <<>>)

Extracted(ok, metadata, exc) == [ok |-> ok, metadata |-> metadata, exc |-> exc]

NotExtracted == Extracted(FALSE, EmptyRecord, NoExc)

\* a variant of parse_exif_metadata that runs the tool with check=False
parse_ignoring_returncode(out) ==
    IF ~out.invocable
    THEN Extracted(FALSE, EmptyRecord, OtherException("FileNotFoundError"))
    ELSE IF ~out.wellformed
    THEN Extracted(FALSE, EmptyRecord,
                   HTTPException(500, <<"Error parsing EXIF data">>))
    ELSE Extracted(TRUE,
                   IF out.list # <<>> THEN out.list[1] ELSE EmptyRecord, NoExc)

\* ExifService.parse_exif_metadata
parse_exif_metadata(out) ==
    IF ~out.invocable
    THEN \* subprocess.run raises FileNotFoundError: not caught here
         Extracted(FALSE, EmptyRecord, OtherException("FileNotFoundError"))
    ELSE IF out.returncode # 0
    THEN \* check=True: CalledProcessError
         Extracted(FALSE, EmptyRecord,
                   HTTPException(500, <<"Error processing image: ",
                                        "CalledProcessError">>))
    ELSE IF ~out.wellformed
    THEN \* json.JSONDecodeError
         Extracted(FALSE, EmptyRecord,
                   HTTPException(500, <<"Error parsing EXIF data">>))
    ELSE \* metadata_list[0] if metadata_list else {}
         Extracted(TRUE,
                   IF out.list # <<>> THEN out.list[1] ELSE EmptyRecord, NoExc)

-----------------------------------------------------------------------------
(* Transient file store *)

TEMP_DIR == <<"t","e","m","p","_","u","p","l","o","a","d","s">>

\* temp_dir / file.filename (pathlib: an absolute right operand replaces the
\* left one)
file_path(filename) ==
    IF filename # <<>> /\ filename[1] = "/" THEN filename
    ELSE TEMP_DIR \o <<"/">> \o filename

NoPath == <<>>

NoInode == <<0, 0>>

\* a directory entry: the inode it names (identified by the request and file
\* that created it), the upload that last truncated it, and what it holds
Absent == [ino |-> NoInode, by |-> NoInode, data |-> "absent"]

\* open(file_path, "wb") by upload u: creates the file or truncates the one
\* that is there
opened(entry, u) ==
    IF entry = Absent
    THEN [ino |-> u, by |-> u, data |-> "empty"]
    ELSE [ino |-> entry.ino, by |-> u, data |-> "empty"]

\* shutil.copyfileobj by upload u through a descriptor on inode ino: the bytes
\* land in the directory entry only while it still names that inode; when
\* another upload truncated or wrote the same inode meanwhile, what the file
\* holds is no upload's bytes
copied(entry, u, ino, complete) ==
    IF entry.ino # ino THEN entry
    ELSE IF entry.by = u /\ entry.data = "empty"
    THEN [entry EXCEPT !.data = IF complete THEN "full" ELSE "partial"]
    ELSE [entry EXCEPT !.data = "mixed"]

-----------------------------------------------------------------------------
(* Requests *)

AJpg == <<"a",".","j","p","g">>
BPng == <<"b",".","P","N","G">>
CTxt == <<"c",".","t","x","t">>

FileNames == {AJpg, BPng, CTxt}

\* declared filenames that name a place outside the directory: the multipart
\* parser hands on the filename parameter of the part as the client wrote it
ParentDJpg == <<".",".","/","d",".","j","p","g">>
RootDJpg == <<"/","d",".","j","p","g">>

OutsideNames == {ParentDJpg, RootDJpg}

\* measured sizes of an upload: small, and one byte over the limit
FileSizes == {1, max_size_bytes(MAX_FILE_SIZE_MB) + 1}

UploadFiles(names, sizes) == [filename : names, size : sizes]

RECURSIVE TotalSize(_)
TotalSize(files) ==
    IF files = <<>> THEN 0 ELSE Head(files).size + TotalSize(Tail(files))

\* the request carries no content-length header (chunked transfer)
NoHeader == -1

\* the length of a multipart body: the files and the framing of each part
BodyLength(files) == TotalSize(files) + Len(files) + 1

Operations == {"analyze", "fuji", "batch", "rename"}

FileLists(op, uploads, maxBatch) ==
    IF op = "batch"
    THEN UNION { [1..n -> uploads] : n \in 0..maxBatch }
    ELSE { <<u>> : u \in uploads }

RequestsOf(op, uploads, maxBatch) ==
    UNION { { [op |-> op, files |-> fl, content_length |-> cl] :
                cl \in {NoHeader, BodyLength(fl)} } :
            fl \in FileLists(op, uploads, maxBatch) }

Requests(ops, uploads, maxBatch) ==
    UNION { RequestsOf(op, uploads, maxBatch) : op \in ops }

\* every request of the bounded input space
AllRequests == Requests(Operations, UploadFiles(FileNames, FileSizes), MaxFiles)

NoRequest == [op |-> "none", files |-> <<>>, content_length |-> NoHeader]

-----------------------------------------------------------------------------
(* State *)

Workers == 1..NumWorkers

Paths == { file_path(n) : n \in FileNames \cup OutsideNames }

\* temp_dir.glob("*") lists the entries of the directory itself
listed(path) ==
    /\ Len(path) > Len(TEMP_DIR) + 1
    /\ SubSeq(path, 1, Len(TEMP_DIR) + 1) = TEMP_DIR \o <<"/">>
    /\ \A k \in (Len(TEMP_DIR) + 2)..Len(path) : path[k] # "/"

VARIABLES
    fs,              \* the transient directory: path -> directory entry
    pc,              \* where each worker process is
    req,             \* the request a worker is handling
    idx,             \* position of the file being processed (the batch loop)
    temp_file_path,  \* the path save_upload_file returned, until its cleanup
    fd,              \* the inode behind the open descriptor of save_upload_file
    results,         \* analyze_batch: results
    errors,          \* analyze_batch: errors
    pending,         \* what the try block left in flight when finally starts
    resp,            \* the response sent to the client
    tool,            \* outcome of the last exiftool run
    metadata,        \* what parse_exif_metadata made of it
    globbed,         \* cleanup(): the paths temp_dir.glob("*") listed
    log,             \* per request: the pipeline steps taken, in order
    call             \* a call of one function of the core: arguments, result

vars == <<fs, pc, req, idx, temp_file_path, fd, results, errors, pending, resp,
          tool, metadata, globbed, log, call>>

NoPending == [exc |-> NoExc, body |-> <<>>]

\* no function of the core is being called on its own
NoCall == [fn |-> "none"]

\* the worker processes before their first request
Started ==
    /\ fs = [p \in Paths |-> Absent]
    /\ pc = [w \in Workers |-> "idle"]
    /\ req = [w \in Workers |-> NoRequest]
    /\ idx = [w \in Workers |-> 0]
    /\ temp_file_path = [w \in Workers |-> NoPath]
    /\ fd = [w \in Workers |-> NoInode]
    /\ results = [w \in Workers |-> <<>>]
    /\ errors = [w \in Workers |-> <<>>]
    /\ pending = [w \in Workers |-> NoPending]
    /\ resp = [w \in Workers |-> NoResp]
    /\ tool = [w \in Workers |-> NotInvocable]
    /\ metadata = [w \in Workers |-> NotExtracted]
    /\ globbed = [w \in Workers |-> {}]
    /\ log = [w \in Workers |-> <<>>]

Init == Started /\ call = NoCall

\* the file the worker is on, its path, and the identity of this upload
CurFile(w) == req[w].files[idx[w]]
CurPath(w) == file_path(CurFile(w).filename)
Upload(w) == <<w, idx[w]>>

Event(ev, i) == [ev |-> ev, i |-> i]
Logged(w, ev) == log' = [log EXCEPT ![w] = Append(@, Event(ev, idx[w]))]

-----------------------------------------------------------------------------
(* How a handler ends, and how the batch loop goes on *)

\* the response leaves the worker
Respond(w, r) ==
    /\ pc' = [pc EXCEPT ![w] = "done"]
    /\ resp' = [resp EXCEPT ![w] = r]

\* analyze_batch: the loop body is over for the current file; `res` is the
\* results list as it now stands ("return results" after the last file)
Advance(w, res) ==
    IF idx[w] < Len(req[w].files)
    THEN /\ pc' = [pc EXCEPT ![w] = "validate_type"]
         /\ idx' = [idx EXCEPT ![w] = @ + 1]
         /\ resp' = resp
    ELSE /\ Respond(w, OkResponse(res))
         /\ idx' = idx

\* an exception leaves the statement being executed (outside the inner
\* try/except of the handler): analyze_batch turns an HTTPException into an
\* errors entry and goes on with the next file; everything else reaches the
\* application's exception handlers
Raised(w, exc) ==
    IF req[w].op = "batch" /\ except_HTTPException(exc)
    THEN /\ errors' = [errors EXCEPT ![w] =
                Append(@, [filename |-> CurFile(w).filename, error |-> exc.detail])]
         /\ results' = results
         /\ Advance(w, results[w])
    ELSE /\ Respond(w, ErrorResponse(exc))
         /\ UNCHANGED <<idx, results, errors>>

-----------------------------------------------------------------------------
(* Operations *)

\* a request reaches a worker process
Receive(w, requests) ==
    /\ pc[w] = "idle"
    /\ \E r \in requests : req' = [req EXCEPT ![w] = r]
    /\ pc' = [pc EXCEPT ![w] = "dispatch"]
    /\ UNCHANGED <<fs, idx, temp_file_path, fd, results, errors, pending, resp,
                   tool, metadata, globbed, log>>
    /\ UNCHANGED call

\* FileUploadSizeMiddleware.dispatch: max_size = int(50.0 * 1024 * 1024)
dispatch_rejects(content_length) ==
    /\ content_length # NoHeader
    /\ content_length > max_size_bytes(50)

Dispatch(w) ==
    /\ pc[w] = "dispatch"
    /\ IF dispatch_rejects(req[w].content_length)
       THEN Respond(w, [status_code |-> 413, detail |-> size_detail, body |-> <<>>])
       ELSE /\ pc' = [pc EXCEPT ![w] = "depends"]
            /\ resp' = resp
    /\ UNCHANGED <<fs, req, idx, temp_file_path, fd, results, errors, pending,
                   tool, metadata, globbed, log>>
    /\ UNCHANGED call

\* a variant of the dependency that lets every request through
check_exiftool_skipped(available) == FALSE

\* check_exiftool: "if not check_exiftool_available(): raise"
check_exiftool_raises(available) == ~available

\* Depends(check_exiftool): `exiftool -ver` answers or does not
check_exiftool(w) ==
    /\ pc[w] = "depends"
    /\ \E check_exiftool_available \in BOOLEAN :
         /\ log' = [log EXCEPT ![w] =
                IF check_exiftool_available THEN @
                ELSE Append(@, Event("tool_unavailable", 0))]
         /\ IF check_exiftool_raises(check_exiftool_available)
            THEN Respond(w, ErrorResponse(
                     HTTPException(500, <<"ExifTool is not installed or not available in PATH. Please install ExifTool to use this API.">>)))
            ELSE /\ pc' = [pc EXCEPT ![w] = "handler"]
                 /\ resp' = resp
    /\ UNCHANGED <<fs, req, idx, temp_file_path, fd, results, errors, pending,
                   tool, metadata, globbed>>
    /\ UNCHANGED call

\* the endpoint function is entered; analyze_batch: "if not files"
Handler(w) ==
    /\ pc[w] = "handler"
    /\ IF req[w].op = "batch" /\ req[w].files = <<>>
       THEN /\ Respond(w, ErrorResponse(HTTPException(400, <<"No files provided">>)))
            /\ idx' = idx
       ELSE /\ pc' = [pc EXCEPT ![w] = "validate_type"]
            /\ idx' = [idx EXCEPT ![w] = 1]
            /\ resp' = resp
    /\ results' = [results EXCEPT ![w] = <<>>]
    /\ errors' = [errors EXCEPT ![w] = <<>>]
    /\ UNCHANGED <<fs, req, temp_file_path, fd, pending, tool, metadata,
                   globbed, log>>
    /\ UNCHANGED call

\* "if not validate_image_file(file.filename)" (validate_fuji_file for fuji)
ValidateType(w) ==
    /\ pc[w] = "validate_type"
    /\ Logged(w, "validate_type")
    /\ IF type_accepted(req[w].op, CurFile(w).filename)
       THEN /\ pc' = [pc EXCEPT ![w] = "validate_size"]
            /\ UNCHANGED <<idx, results, errors, resp>>
       ELSE IF req[w].op = "batch"
       THEN \* errors.append(...); continue
            /\ errors' = [errors EXCEPT ![w] =
                   Append(@, [filename |-> CurFile(w).filename,
                              error |-> <<"Unsupported file format">>])]
            /\ results' = results
            /\ Advance(w, results[w])
       ELSE /\ Respond(w, ErrorResponse(
                   HTTPException(400, unsupported_detail(req[w].op))))
            /\ UNCHANGED <<idx, results, errors>>
    /\ UNCHANGED <<fs, req, temp_file_path, fd, pending, tool, metadata, globbed>>
    /\ UNCHANGED call

\* validate_file_size(file, max_size_mb=MAX_FILE_SIZE_MB)
ValidateSize(w) ==
    /\ pc[w] = "validate_size"
    /\ Logged(w, "validate_size")
    /\ IF validate_file_size_raises(CurFile(w).size, MAX_FILE_SIZE_MB)
       THEN Raised(w, HTTPException(413, size_detail))
       ELSE /\ pc' = [pc EXCEPT ![w] = "mkdir"]
            /\ UNCHANGED <<idx, results, errors, resp>>
    /\ UNCHANGED <<fs, req, temp_file_path, fd, pending, tool, metadata, globbed>>
    /\ UNCHANGED call

\* save_upload_file: ensure_directory_exists(settings.TEMP_DIR), outside the
\* try block; Path.mkdir succeeds or raises an OSError
EnsureDirectory(w) ==
    /\ pc[w] = "mkdir"
    /\ Logged(w, "mkdir")
    /\ \E made \in BOOLEAN :
         IF made
         THEN /\ pc' = [pc EXCEPT ![w] = "open"]
              /\ UNCHANGED <<idx, results, errors, resp>>
         ELSE Raised(w, OtherException("OSError"))
    /\ UNCHANGED <<fs, req, temp_file_path, fd, pending, tool, metadata, globbed>>
    /\ UNCHANGED call

save_error == HTTPException(500, <<"Error saving file: ", "OSError">>)

\* save_upload_file: open(file_path, "wb") creates or truncates the file, or
\* raises, which the except clause turns into a 500 HTTPException
OpenFile(w) ==
    /\ pc[w] = "open"
    /\ \E is_open \in BOOLEAN :
         IF is_open
         THEN /\ fs' = [fs EXCEPT ![CurPath(w)] = opened(@, Upload(w))]
              /\ fd' = [fd EXCEPT ![w] = opened(fs[CurPath(w)], Upload(w)).ino]
              /\ Logged(w, "open")
              /\ pc' = [pc EXCEPT ![w] = "copy"]
              /\ UNCHANGED <<idx, results, errors, resp>>
         ELSE /\ Raised(w, save_error)
              /\ Logged(w, "open_failed")
              /\ UNCHANGED <<fs, fd>>
    /\ UNCHANGED <<req, temp_file_path, pending, tool, metadata, globbed>>
    /\ UNCHANGED call

\* save_upload_file: shutil.copyfileobj(file.file, buffer) writes the whole
\* upload and the path is returned, or the write fails part-way (the with
\* block closes the file, the except clause raises the 500 HTTPException)
CopyFile(w) ==
    /\ pc[w] = "copy"
    /\ \E complete \in BOOLEAN :
         /\ fs' = [fs EXCEPT ![CurPath(w)] = copied(@, Upload(w), fd[w], complete)]
         /\ IF complete
            THEN /\ temp_file_path' = [temp_file_path EXCEPT ![w] = CurPath(w)]
                 /\ Logged(w, "saved")
                 /\ pc' = [pc EXCEPT ![w] = "extract"]
                 /\ UNCHANGED <<idx, results, errors, resp>>
            ELSE /\ Raised(w, save_error)
                 /\ Logged(w, "write_failed")
                 /\ UNCHANGED temp_file_path
    /\ fd' = [fd EXCEPT ![w] = NoInode]
    /\ UNCHANGED <<req, pending, tool, metadata, globbed>>
    /\ UNCHANGED call

\* what exiftool can answer for a directory entry
RunTool(entry) == IF entry = Absent THEN {FileNotFoundOutcome} ELSE ToolOutcomes

\* the try block of the endpoint: parse_exif_metadata(temp_file_path) and
\* what the endpoint does with its result or its exception.  The single-file
\* endpoints wrap every exception in a 500 HTTPException; analyze_batch
\* appends to results or to errors.  The body of a single-file response
\* carries the record its view is computed from.
Extract(w) ==
    /\ pc[w] = "extract"
    /\ \E out \in RunTool(fs[temp_file_path[w]]) :
         LET r == parse_exif_metadata(out)
             entry == [filename |-> CurFile(w).filename, metadata |-> r.metadata]
         IN /\ tool' = [tool EXCEPT ![w] = out]
            /\ metadata' = [metadata EXCEPT ![w] = r]
            /\ IF req[w].op = "batch"
               THEN /\ results' = [results EXCEPT ![w] =
                           IF r.ok THEN Append(@, entry) ELSE @]
                    /\ errors' = [errors EXCEPT ![w] =
                           IF r.ok THEN @
                           ELSE Append(@, [filename |-> CurFile(w).filename,
                                           error |-> r.exc.detail])]
                    /\ pending' = pending
               ELSE /\ pending' = [pending EXCEPT ![w] =
                           IF r.ok
                           THEN [exc |-> NoExc, body |-> <<entry>>]
                           ELSE [exc |-> extraction_error(req[w].op, r.exc),
                                 body |-> <<>>]]
                    /\ UNCHANGED <<results, errors>>
    /\ Logged(w, "tool")
    /\ pc' = [pc EXCEPT ![w] = "exists"]
    /\ UNCHANGED <<fs, req, idx, temp_file_path, fd, resp, globbed>>
    /\ UNCHANGED call

\* the finally block has run to its end: the handle is gone; a single-file
\* endpoint returns the value or raises the exception left in flight, the
\* batch loop goes on
Released(w, evs) ==
    /\ log' = [log EXCEPT ![w] = @ \o [k \in DOMAIN evs |-> Event(evs[k], idx[w])]]
    /\ temp_file_path' = [temp_file_path EXCEPT ![w] = NoPath]
    /\ tool' = [tool EXCEPT ![w] = NotInvocable]
    /\ metadata' = [metadata EXCEPT ![w] = NotExtracted]
    /\ IF req[w].op = "batch"
       THEN Advance(w, results[w])
       ELSE /\ Respond(w, IF pending[w].exc = NoExc
                          THEN serialize_response(req[w].op, pending[w].body)
                          ELSE ErrorResponse(pending[w].exc))
            /\ idx' = idx
    /\ UNCHANGED <<results, errors>>

\* finally: "if temp_file_path.exists()"
Exists(w) ==
    /\ pc[w] = "exists"
    /\ IF fs[temp_file_path[w]] # Absent
       THEN /\ pc' = [pc EXCEPT ![w] = "unlink"]
            /\ UNCHANGED <<idx, temp_file_path, results, errors, resp, log,
                           tool, metadata>>
       ELSE Released(w, <<"exists_false", "release">>)
    /\ UNCHANGED <<fs, req, fd, pending, globbed>>
    /\ UNCHANGED call

\* finally: "temp_file_path.unlink()": removes the entry, or raises
\* (FileNotFoundError when the entry is gone, an OSError when the file system
\* refuses); the exception replaces whatever the try block left in flight
Unlink(w) ==
    /\ pc[w] = "unlink"
    /\ \E removed \in BOOLEAN :
         IF fs[temp_file_path[w]] = Absent \/ ~removed
         THEN /\ Raised(w, OtherException(
                     IF fs[temp_file_path[w]] = Absent THEN "FileNotFoundError"
                                                       ELSE "OSError"))
              /\ Logged(w, IF fs[temp_file_path[w]] = Absent
                           THEN "unlink_missing" ELSE "unlink_failed")
              /\ temp_file_path' = [temp_file_path EXCEPT ![w] = NoPath]
              /\ tool' = [tool EXCEPT ![w] = NotInvocable]
              /\ metadata' = [metadata EXCEPT ![w] = NotExtracted]
              /\ fs' = fs
         ELSE /\ fs' = [fs EXCEPT ![temp_file_path[w]] = Absent]
              /\ Released(w, <<"release">>)
    /\ UNCHANGED <<req, fd, pending, globbed>>
    /\ UNCHANGED call

-----------------------------------------------------------------------------
(* Shutdown cleanup of a worker process (main.py, cleanup) *)

\* the orders in which a directory listing can come
Orders(S) ==
    { o \in [1..Cardinality(S) -> S] :
        \A a, b \in 1..Cardinality(S) : a # b => o[a] # o[b] }

\* the shutdown event of a worker that has no request in flight:
\* "for file in temp_dir.glob('*')"
Shutdown(w) ==
    /\ pc[w] \in {"idle", "done"}
    /\ \E o \in Orders({ p \in Paths : listed(p) /\ fs[p] # Absent }) :
         globbed' = [globbed EXCEPT ![w] = o]
    /\ pc' = [pc EXCEPT ![w] = "sweep"]
    /\ UNCHANGED <<fs, req, idx, temp_file_path, fd, results, errors, pending,
                   resp, tool, metadata, log>>
    /\ UNCHANGED call

\* cleanup: "if file.is_file()" on the next listed path
SweepIsFile(w) ==
    /\ pc[w] = "sweep"
    /\ IF globbed[w] = <<>>
       THEN /\ pc' = [pc EXCEPT ![w] = "stopped"]
            /\ globbed' = globbed
       ELSE IF fs[Head(globbed[w])] # Absent
       THEN /\ pc' = [pc EXCEPT ![w] = "sweep_unlink"]
            /\ globbed' = globbed
       ELSE /\ pc' = pc
            /\ globbed' = [globbed EXCEPT ![w] = Tail(@)]
    /\ UNCHANGED <<fs, req, idx, temp_file_path, fd, results, errors, pending,
                   resp, tool, metadata, log>>
    /\ UNCHANGED call

\* cleanup: "file.unlink()"; an exception ends the loop ("except Exception"
\* logs it)
SweepUnlink(w) ==
    /\ pc[w] = "sweep_unlink"
    /\ \E removed \in BOOLEAN :
         IF fs[Head(globbed[w])] = Absent \/ ~removed
         THEN /\ pc' = [pc EXCEPT ![w] = "stopped"]
              /\ fs' = fs
              /\ globbed' = globbed
         ELSE /\ fs' = [fs EXCEPT ![Head(globbed[w])] = Absent]
              /\ pc' = [pc EXCEPT ![w] = "sweep"]
              /\ globbed' = [globbed EXCEPT ![w] = Tail(@)]
    /\ UNCHANGED <<req, idx, temp_file_path, fd, results, errors, pending,
                   resp, tool, metadata, log>>
    /\ UNCHANGED call

-----------------------------------------------------------------------------
(* Specifications *)

\* one step of the request worker w is handling
RequestStep(w) ==
    \/ Dispatch(w)
    \/ check_exiftool(w)
    \/ Handler(w)
    \/ ValidateType(w)
    \/ ValidateSize(w)
    \/ EnsureDirectory(w)
    \/ OpenFile(w)
    \/ CopyFile(w)
    \/ Extract(w)
    \/ Exists(w)
    \/ Unlink(w)

\* one step of the shutdown cleanup of worker w
CleanupStep(w) ==
    \/ Shutdown(w)
    \/ SweepIsFile(w)
    \/ SweepUnlink(w)

\* one worker process (the default of run.py) serving any one request
Next == Receive(1, AllRequests) \/ RequestStep(1)

Spec == Init /\ [][Next]_vars

\* the requests of the workers that share the directory: uploads that pass
\* validation, with colliding and with distinct names
SharedUploads == UploadFiles({AJpg, BPng}, {1})

SharedRequests == Requests({"analyze", "batch"}, SharedUploads, 1)

NextWorkers ==
    \E w \in Workers :
        Receive(w, SharedRequests) \/ RequestStep(w) \/ CleanupStep(w)

SpecWorkers == Init /\ [][NextWorkers]_vars

\* one worker process serving a request whose declared filename is a plain
\* name or names a place outside the directory
OutsideRequests ==
    Requests(Operations, UploadFiles(OutsideNames \cup {AJpg}, {1}), 1)

NextNames == Receive(1, OutsideRequests) \/ RequestStep(1)

SpecNames == Init /\ [][NextNames]_vars

-----------------------------------------------------------------------------
(* The functions of the core, called on their own *)

\* Python values: a string, an integer, None
Str(s) == [kind |-> "str", s |-> s, n |-> 0]
Num(n) == [kind |-> "num", s |-> <<>>, n |-> n]
None == [kind |-> "none", s |-> <<>>, n |-> 0]

\* how a call ends: it returns a value or raises an exception
Return(v) == [raised |-> "none", value |-> v]
Raise(type) == [raised |-> type]
NotReturned == [raised |-> "pending"]

Call(fn, args) == [fn |-> fn, args |-> args, ret |-> NotReturned]

pipeline_vars == <<fs, pc, req, idx, temp_file_path, fd, results, errors,
                   pending, resp, tool, metadata, globbed, log>>

\* the call returns or raises
Returns(r) ==
    /\ call.ret = NotReturned
    /\ call' = [call EXCEPT !.ret = r]
    /\ UNCHANGED pipeline_vars

\* str.upper() on one character, to write the inputs in other cases
UpperChar(c) ==
    IF \E k \in DOMAIN LowerCase : LowerCase[k] = c
    THEN UpperCase[CHOOSE k \in DOMAIN LowerCase : LowerCase[k] = c]
    ELSE c

Upper(s) == [k \in DOMAIN s |-> UpperChar(s[k])]

\* every second letter in upper case
MixedCase(s) == [k \in DOMAIN s |-> IF k % 2 = 0 THEN UpperChar(s[k]) ELSE s[k]]

\* endings of the filenames given to the validators: the supported
\* extensions in three spellings, and endings that are none of them
OtherEndings ==
    { <<>>, <<".">>, <<"j","p","g">>, <<".","t","x","t">>, <<".","g","i","f">>,
      <<".","j","p">>, <<".","j","p","g","x">>, <<".","j","p","g",".">>,
      <<".","j","p","g"," ">>, <<".","r","a","w">> }

Endings ==
    image_extensions \cup { Upper(e) : e \in image_extensions }
        \cup { MixedCase(e) : e \in image_extensions } \cup OtherEndings

Stems ==
    { <<>>, <<"a">>, <<"a",".","b">>, <<"a",".","j","p","g">>, <<"d","/">> }

TypeNames == { st \o e : st \in Stems, e \in Endings }

\* the filename of an UploadFile is a string or None
TypeCalls ==
    { Call(fn, <<x>>) : fn \in {"validate_image_file", "validate_fuji_file"},
                        x \in { Str(n) : n \in TypeNames } \cup {None} }

\* validate_image_file(filename) / validate_fuji_file(filename):
\* filename.lower() is an attribute of strings only
validate_type(fn, filename) ==
    IF filename.kind # "str"
    THEN Raise("AttributeError")
    ELSE Return(IF fn = "validate_fuji_file"
                THEN validate_fuji_file(filename.s)
                ELSE validate_image_file(filename.s))

CallValidateType ==
    /\ call.fn \in {"validate_image_file", "validate_fuji_file"}
    /\ Returns(validate_type(call.fn, call.args[1]))

\* byte counts around the limit
SizeInputs ==
    { 0, 1, max_size_bytes(MAX_FILE_SIZE_MB) - 1, max_size_bytes(MAX_FILE_SIZE_MB),
      max_size_bytes(MAX_FILE_SIZE_MB) + 1, 2 * max_size_bytes(MAX_FILE_SIZE_MB) }

SizeCalls ==
    { Call("validate_file_size", <<n>>) : n \in SizeInputs }
        \cup { Call("dispatch", <<n>>) : n \in SizeInputs \cup {NoHeader} }

\* validate_file_size(file, max_size_mb): raises the 413 or returns None
validate_file_size(file_size, max_size_mb) ==
    IF validate_file_size_raises(file_size, max_size_mb)
    THEN [raised |-> "HTTPException",
          exc |-> HTTPException(413, size_detail_of(max_size_mb))]
    ELSE Return(None)

\* FileUploadSizeMiddleware.dispatch: answers 413 itself or calls the next
\* layer
dispatch(content_length) ==
    IF dispatch_rejects(content_length)
    THEN Return([status_code |-> 413, detail |-> size_detail_of(50), body |-> <<>>])
    ELSE Return([status_code |-> 0, detail |-> <<"call_next">>, body |-> <<>>])

CallValidateSize ==
    /\ call.fn = "validate_file_size"
    /\ Returns(validate_file_size(call.args[1], MAX_FILE_SIZE_MB))

CallDispatch ==
    /\ call.fn = "dispatch"
    /\ Returns(dispatch(call.args[1]))

-----------------------------------------------------------------------------
(* Recipe decoder: ExifService.parse_fuji_metadata, after the extraction *)

Unknown == <<"U","n","k","n","o","w","n">>
UnknownDate == Unknown \o <<" ","D","a","t","e">>
UnknownCamera == Unknown \o <<" ","C","a","m","e","r","a">>
UnknownLens == Unknown \o <<" ","L","e","n","s">>

\* dict.get(key, default)
get(md, key, default) == IF key \in DOMAIN md THEN md[key] ELSE default

\* the index of the first `c` of s, 0 when there is none
Find(s, c) ==
    IF \E k \in DOMAIN s : s[k] = c
    THEN CHOOSE k \in DOMAIN s : s[k] = c /\ \A j \in 1..(k - 1) : s[j] # c
    ELSE 0

\* s.split(c)[1], for an s that holds a c
split_1(s, c) ==
    LET rest == SubSeq(s, Find(s, c) + 1, Len(s))
    IN IF Find(rest, c) = 0 THEN rest ELSE SubSeq(rest, 1, Find(rest, c) - 1)

\* the fields of RecipeDetails and the metadata field each is read from
recipe_sources ==
    [FilmSimulation |-> "FilmMode", DynamicRange |-> "DynamicRange",
     GrainEffect |-> "GrainEffectRoughness", ColorChrome |-> "ColorChrome",
     ColorChromeBlue |-> "ColorChromeBlue", WhiteBalance |-> "WhiteBalance",
     WBShift |-> "WhiteBalanceFineTune", Highlights |-> "HighlightTone",
     Shadows |-> "ShadowTone", Color |-> "Saturation",
     Sharpness |-> "Sharpness", NoiseReduction |-> "NoiseReduction"]

\* metadata.get("FilmMode", metadata.get("FilmSimulation", "Unknown"))
film_simulation_of(md) ==
    get(md, "FilmMode", get(md, "FilmSimulation", Str(Unknown)))

\* the keyword arguments of RecipeDetails(...)
recipe_arguments(md) ==
    [f \in DOMAIN recipe_sources |->
        IF f = "FilmSimulation" THEN film_simulation_of(md)
        ELSE get(md, recipe_sources[f], Str(Unknown))]

\* to_str(value): str(value) if value != "Unknown" else value
to_str(value) ==
    IF value.kind = "str" THEN value.s
    ELSE IF value.kind = "num" THEN str_int(value.n)
    ELSE <<"N","o","n","e">>

\* the fields of a pydantic model declared `str` take strings only
\* (pydantic 2, which pydantic_settings in config.py requires)
str_fields_valid(values) == \A f \in DOMAIN values : values[f].kind = "str"

parse_fuji_metadata(md) ==
    LET film_simulation == film_simulation_of(md)
        details == recipe_arguments(md)
        texts == [date |-> get(md, "DateTimeOriginal", Str(UnknownDate)),
                  camera_model |-> get(md, "Model", Str(UnknownCamera)),
                  lens_model |-> get(md, "LensModel", Str(UnknownLens))]
    IN IF ~str_fields_valid(details)
       THEN Raise("ValidationError")          \* RecipeDetails(...)
       ELSE IF ~str_fields_valid(texts)
       THEN Raise("ValidationError")          \* FujiRecipeResponse(...)
       ELSE Return(
           [recipe |-> IF Find(film_simulation.s, "/") # 0
                       THEN split_1(film_simulation.s, "/")
                       ELSE film_simulation.s,
            recipe_details |-> [f \in DOMAIN details |-> details[f].s],
            date |-> texts.date.s,
            camera_model |-> texts.camera_model.s,
            lens_model |-> texts.lens_model.s,
            aperture |-> to_str(get(md, "Aperture", Str(Unknown))),
            shutter_speed |-> to_str(get(md, "ShutterSpeed", Str(Unknown))),
            iso |-> to_str(get(md, "ISO", Str(Unknown))),
            focal_length |-> to_str(get(md, "FocalLength", Str(Unknown)))])

\* a metadata record that holds every field the decoder reads
ClassicChrome == <<"C","l","a","s","s","i","c"," ","C","h","r","o","m","e">>
FilmModeValue == <<"F","1","/">> \o ClassicChrome \o <<"/","S">>

RecipeFields ==
    { recipe_sources[f] : f \in DOMAIN recipe_sources } \cup {"FilmSimulation"}

FullRecipeRecord ==
    [f \in RecipeFields \cup {"Aperture", "ISO"} |->
        IF f = "FilmMode" THEN Str(FilmModeValue)
        ELSE IF f = "FilmSimulation" THEN Str(ClassicChrome)
        ELSE IF f = "ISO" THEN Num(400)
        ELSE Str(<<"O","n">>)]

Restrict(md, fields) == [f \in fields |-> md[f]]

\* the full record, the empty one, records of one field, records that lack
\* one field, and records in which one field holds a number or null
RecipeRecords ==
    {FullRecipeRecord, Restrict(FullRecipeRecord, {})}
        \cup { Restrict(FullRecipeRecord, {f}) : f \in DOMAIN FullRecipeRecord }
        \cup { Restrict(FullRecipeRecord, DOMAIN FullRecipeRecord \ {f}) :
                  f \in DOMAIN FullRecipeRecord }
        \cup { [FullRecipeRecord EXCEPT ![f] = v] :
                  f \in DOMAIN FullRecipeRecord, v \in {Num(5), None} }

RecipeCalls == { Call("parse_fuji_metadata", <<md>>) : md \in RecipeRecords }

CallParseFuji ==
    /\ call.fn = "parse_fuji_metadata"
    /\ Returns(parse_fuji_metadata(call.args[1]))

-----------------------------------------------------------------------------
(* Filename synthesizer: rename_proposal after the extraction, with          *)
(* format_date_for_filename and sanitize_filename                            *)

\* the longest name sanitize_filename leaves as it is
NAME_LIMIT == 255

\* str.replace(old, new) for single characters, and str.replace(old, "")
replace(s, old, new) == [k \in DOMAIN s |-> IF s[k] = old THEN new ELSE s[k]]
remove(s, old) == SelectSeq(s, LAMBDA c : c # old)

\* s[:n] of Python: a negative n counts from the end
slice_to(s, n) ==
    IF n >= 0 THEN SubSeq(s, 1, IF n < Len(s) THEN n ELSE Len(s))
    ELSE SubSeq(s, 1, IF Len(s) + n > 0 THEN Len(s) + n ELSE 0)

\* the index of the last `c` of s, 0 when there is none
FindLast(s, c) ==
    IF \E k \in DOMAIN s : s[k] = c
    THEN CHOOSE k \in DOMAIN s : s[k] = c /\ \A j \in (k + 1)..Len(s) : s[j] # c
    ELSE 0

\* os.path.splitext (posixpath): the extension starts at the last dot of the
\* last path component, unless only dots precede it there
splitext(path) ==
    LET sep == FindLast(path, "/")
        dot == FindLast(path, ".")
    IN IF dot > sep /\ \E k \in (sep + 1)..(dot - 1) : path[k] # "."
       THEN <<SubSeq(path, 1, dot - 1), SubSeq(path, dot, Len(path))>>
       ELSE <<path, <<>>>>

invalid_chars == <<"<", ">", ":", "\"", "/", "\\", "|", "?", "*">>

\* for char in invalid_chars: filename = filename.replace(char, '_')
RECURSIVE replace_all(_, _)
replace_all(filename, chars) ==
    IF chars = <<>> THEN filename
    ELSE replace_all(replace(filename, Head(chars), "_"), Tail(chars))

\* base, ext = os.path.splitext(filename); base[:255-len(ext)] + ext
truncate(filename) ==
    LET base == splitext(filename)[1]
        ext == splitext(filename)[2]
    IN slice_to(base, NAME_LIMIT - Len(ext)) \o ext

sanitize_filename(filename) ==
    LET replaced == replace_all(filename, invalid_chars)
    IN IF Len(replaced) > NAME_LIMIT THEN truncate(replaced) ELSE replaced

\* bool(value)
truthy(value) ==
    IF value.kind = "str" THEN value.s # <<>>
    ELSE IF value.kind = "num" THEN value.n # 0
    ELSE FALSE

\* format_date_for_filename(date_str), `now` being
\* datetime.now().strftime("%Y%m%d_%H%M%S"); a value without .replace raises
\* inside the try block and the except clause answers the current time too
format_date_for_filename(date_str, now) ==
    IF ~truthy(date_str) \/ date_str = Str(UnknownDate) THEN now
    ELSE IF date_str.kind # "str" THEN now
    ELSE replace(remove(date_str.s, ":"), " ", "_")

\* "_".join(elements)
RECURSIVE join(_, _)
join(elements, sep) ==
    IF elements = <<>> THEN <<>>
    ELSE IF Len(elements) = 1 THEN elements[1]
    ELSE elements[1] \o sep \o join(Tail(elements), sep)

\* a variant of the comprehension that keeps the empty elements
keep_empty(elements) == elements

\* [e for e in elements if e]
non_empty(elements) == SelectSeq(elements, LAMBDA e : e # <<>>)

\* f"f{aperture}" if aperture else "", and the like
formatted(value, prefix, suffix) ==
    IF truthy(value) THEN prefix \o to_str(value) \o suffix ELSE <<>>

\* the try block of rename_proposal after parse_exif_metadata: the proposed
\* filename; .replace on a value that is no string raises AttributeError
propose_filename(original, md, now) ==
    LET ext == splitext(original)[2]
        date_str == get(md, "DateTimeOriginal", Str(<<>>))
        model == get(md, "Model", Str(<<>>))
        lens_model == get(md, "LensModel", Str(<<>>))
    IN IF model.kind # "str" \/ lens_model.kind # "str"
       THEN Raise("AttributeError")
       ELSE LET elements ==
                    << format_date_for_filename(date_str, now),
                       replace(model.s, " ", "_"),
                       replace(lens_model.s, " ", "_"),
                       formatted(get(md, "Aperture", Str(<<>>)), <<"f">>, <<>>),
                       formatted(get(md, "ShutterSpeed", Str(<<>>)), <<>>, <<"s">>),
                       formatted(get(md, "ISO", Str(<<>>)), <<"I","S","O">>, <<>>) >>
            IN Return(sanitize_filename(join(non_empty(elements), <<"_">>)) \o ext)

\* n times the character c
Repeat(c, n) == [k \in 1..n |-> c]

ImgJpg == <<"I","M","G","_","0","0","0","1",".","j","p","g">>
XRaf == <<"x",".","y",".","R","A","F">>

OriginalNames == {ImgJpg, XRaf}

\* datetime.now().strftime("%Y%m%d_%H%M%S") at the time of the call
Now == <<"2","0","2","6","0","1","0","1","_","1","2","0","0","0","0">>

FullRenameRecord ==
    [f \in {"DateTimeOriginal", "Model", "LensModel", "Aperture",
            "ShutterSpeed", "ISO"} |->
        IF f = "DateTimeOriginal"
        THEN Str(<<"2","0","2","4",":","0","1",":","0","2"," ",
                   "0","3",":","0","4",":","0","5">>)
        ELSE IF f = "Model" THEN Str(<<"X","-","T","4">>)
        ELSE IF f = "LensModel" THEN Str(<<"X","F"," ","3","5","m","m">>)
        ELSE IF f = "Aperture" THEN Str(<<"2",".","8">>)
        ELSE IF f = "ShutterSpeed" THEN Str(<<"1","/","2","5","0">>)
        ELSE Str(<<"4","0","0">>)]

\* a camera model longer than the limit, without and with a dot in front
LongModel == Repeat("m", NAME_LIMIT + Excess)
DottedLongModel == <<"v", ".">> \o Repeat("m", NAME_LIMIT + Excess)

\* records with every subset of the six fields, and records in which one
\* field is empty, a number, null, a placeholder or very long
RenameRecords ==
    { Restrict(FullRenameRecord, fields) : fields \in SUBSET DOMAIN FullRenameRecord }
        \cup { [FullRenameRecord EXCEPT ![f] = v] :
                  f \in DOMAIN FullRenameRecord,
                  v \in {Str(<<>>), Num(0), Num(400), None} }
        \cup { [FullRenameRecord EXCEPT !["DateTimeOriginal"] = Str(UnknownDate)],
               [FullRenameRecord EXCEPT !["Model"] = Str(LongModel)],
               [FullRenameRecord EXCEPT !["Model"] = Str(DottedLongModel)],
               [Model |-> Str(LongModel)],
               [Model |-> Str(DottedLongModel)] }

RenameCalls ==
    { Call("propose_filename", <<original, md>>) :
          original \in OriginalNames, md \in RenameRecords }

CallProposeFilename ==
    /\ call.fn = "propose_filename"
    /\ Returns(propose_filename(call.args[1], call.args[2], Now))

\* names with each of the characters that are replaced, and names around and
\* over the length limit, the long ones with a short and with a long extension
SanitizeNames ==
    { <<"a", invalid_chars[k], "b">> : k \in DOMAIN invalid_chars }
        \cup { <<"a", "_", "b">>, <<>>, invalid_chars, ImgJpg,
               Repeat("a", NAME_LIMIT), Repeat("a", NAME_LIMIT + 1),
               Repeat("a", NAME_LIMIT + Excess),
               Repeat("?", NAME_LIMIT + Excess),
               Repeat("a", NAME_LIMIT - 4) \o <<".","j","p","e","g">>,
               Repeat("a", NAME_LIMIT + Excess) \o <<".","j","p","g">>,
               Repeat("a", NAME_LIMIT + Excess) \o <<"/","b",".","j","p","g">>,
               <<".">> \o Repeat("x", NAME_LIMIT + Excess),
               Repeat("a", 10) \o <<".">> \o Repeat("x", NAME_LIMIT - 1),
               Repeat("a", 10) \o <<".">> \o Repeat("x", NAME_LIMIT),
               <<"a", "b", ".">> \o Repeat("x", NAME_LIMIT + Excess) }

SanitizeCalls == { Call("sanitize_filename", <<n>>) : n \in SanitizeNames }

CallSanitize ==
    /\ call.fn = "sanitize_filename"
    /\ Returns(Return(sanitize_filename(call.args[1])))

-----------------------------------------------------------------------------
(* The functions called with every input of the bounded input sets *)

InitFunctions ==
    /\ Started
    /\ \/ call \in TypeCalls
       \/ call \in SizeCalls
       \/ call \in RecipeCalls
       \/ call \in RenameCalls
       \/ call \in SanitizeCalls

NextFunctions ==
    \/ CallValidateType
    \/ CallValidateSize
    \/ CallDispatch
    \/ CallParseFuji
    \/ CallProposeFilename
    \/ CallSanitize

SpecFunctions == InitFunctions /\ [][NextFunctions]_vars

-----------------------------------------------------------------------------
(* Vocabulary of the properties *)

SingleFile == {"analyze", "fuji", "rename"}

\* the request of worker w took step ev on its file i
Took(w, ev, i) == \E k \in DOMAIN log[w] : log[w][k] = Event(ev, i)

TookAny(w, ev) == \E k \in DOMAIN log[w] : log[w][k].ev = ev

\* how often the request of worker w took step ev
Times(w, ev) == Cardinality({ k \in DOMAIN log[w] : log[w][k].ev = ev })

\* the paths whose directory entry names a file the request of w created
OwnFiles(w) == { p \in Paths : fs[p] # Absent /\ fs[p].ino[1] = w }

\* what a single-file endpoint answers when its finally block adds nothing
Outcome(op, p) ==
    IF p.exc = NoExc THEN serialize_response(op, p.body) ELSE ErrorResponse(p.exc)

\* the 50 MiB limit, in bytes
LimitBytes == 50 * 1024 * 1024

-----------------------------------------------------------------------------
(* C1: after a single-file request has completed, on every exit path, no    *)
(* transient file it created exists, and each acquire (an open that created *)
(* or truncated the file, whether or not the write went through) is matched *)
(* by exactly one release (a finally block that ran to its end).            *)
(* Fails: a write that fails after open leaves the partial file behind,     *)
(* save_upload_file being called outside the try/finally.                   *)
C1_TransientFilesReleased ==
    \A w \in Workers :
        (pc[w] = "done" /\ req[w].op \in SingleFile) =>
            /\ OwnFiles(w) = {}
            /\ Times(w, "open") = Times(w, "release")

(* C2: two requests that run concurrently never hold the same path: the     *)
(* acquires of two uploads with the same declared filename yield distinct   *)
(* paths.  Fails: the path is TEMP_DIR / file.filename.                     *)
C2_DistinctPaths ==
    \A w1, w2 \in Workers :
        (w1 # w2 /\ temp_file_path[w1] # NoPath /\ temp_file_path[w2] # NoPath)
            => temp_file_path[w1] # temp_file_path[w2]

(* C3: while a request holds a transient file handle (from the end of       *)
(* materialization until its own release) the file at that path exists and  *)
(* holds that request's bytes.  Fails: another worker's open truncates it,  *)
(* another worker's cleanup or shutdown sweep removes it.                   *)
C3_HeldFileIntact ==
    \A w \in Workers :
        temp_file_path[w] # NoPath =>
            /\ fs[temp_file_path[w]] # Absent
            /\ fs[temp_file_path[w]].by = Upload(w)
            /\ fs[temp_file_path[w]].data = "full"

(* C4: release is idempotent: when the file at the handle's path is already *)
(* gone, also when it goes between the existence check and the unlink,      *)
(* release does not raise and the operation answers what it would have      *)
(* answered otherwise.  Fails: unlink raises FileNotFoundError in the       *)
(* window after exists().                                                   *)
C4_ReleaseIdempotent ==
    \A w \in Workers :
        /\ ~TookAny(w, "unlink_missing")
        /\ ( /\ pc[w] = "done"
             /\ req[w].op \in SingleFile
             /\ (TookAny(w, "exists_false") \/ TookAny(w, "unlink_missing")) )
           => resp[w] = Outcome(req[w].op, pending[w])

(* C5: in a batch, a failure of file i in any stage does not keep the files *)
(* after it from being run through the pipeline: when the request is over,  *)
(* every file after a processed one was processed too.  Fails: an OSError   *)
(* of mkdir or of unlink is no HTTPException and ends the whole request.    *)
C5_BatchFailureIsolation ==
    \A w \in Workers :
        (pc[w] = "done" /\ req[w].op = "batch") =>
            \A i \in 1..(Len(req[w].files) - 1) :
                Took(w, "validate_type", i) => Took(w, "validate_type", i + 1)

(* C6: the result a batch returns holds exactly one outcome per input file, *)
(* in input order.  Fails: the errors list is only logged, "return results" *)
(* returns the successes alone.                                             *)
C6_BatchOneOutcomePerFile ==
    \A w \in Workers :
        (pc[w] = "done" /\ req[w].op = "batch" /\ resp[w].status_code = 200) =>
            /\ Len(resp[w].body) = Len(req[w].files)
            /\ \A i \in DOMAIN resp[w].body :
                   resp[w].body[i].filename = req[w].files[i].filename

C8_BatchReleasesBeforeNext ==
    \A w \in Workers :
        req[w].op = "batch" =>
            /\ Cardinality(OwnFiles(w)) <= 1
            /\ pc[w] \in {"validate_type", "validate_size", "mkdir", "open", "done"}
                   => OwnFiles(w) = {}

\* the extraction of worker w has just run
JustExtracted(w) == pc[w] \in {"exists", "unlink"}

SupportedNames(op) == { n \in FileNames : type_accepted(op, n) }

GeneralNames == SupportedNames("analyze")
VendorNames == SupportedNames("fuji")

\* file i of the request of w has an extension the operation does not
\* support, or is over the size limit
RejectedFile(w, i) ==
    \/ req[w].files[i].filename \notin
           (IF req[w].op = "fuji" THEN VendorNames ELSE GeneralNames)
    \/ req[w].files[i].size > LimitBytes

\* the steps that materialize a file or hand it to the tool
Materializing == {"mkdir", "open", "open_failed", "saved", "write_failed", "tool"}

(* C10: in all four operations type and size validation of a file complete  *)
(* before the file is materialized: for a file of unsupported extension or  *)
(* over the size limit the directory is not prepared, no transient file is  *)
(* created and the extraction tool is not run; and the first step of a      *)
(* materialization comes right after the size validation of that file,      *)
(* which comes right after its type validation.                             *)
C10_ValidationBeforeMaterialization ==
    \A w \in Workers :
        /\ \A k \in DOMAIN log[w] :
               log[w][k].ev \in Materializing =>
                   /\ ~RejectedFile(w, log[w][k].i)
                   /\ k > 2
                   /\ log[w][k - 1].i = log[w][k].i
                   /\ IF log[w][k].ev = "mkdir"
                      THEN /\ log[w][k - 1].ev = "validate_size"
                           /\ log[w][k - 2] = Event("validate_type", log[w][k].i)
                      ELSE log[w][k - 1].ev \in Materializing
        /\ \A p \in Paths :
               (fs[p] # Absent /\ fs[p].ino[1] = w) =>
                   ~RejectedFile(w, fs[p].ino[2])

\* an oversized file of supported type went through both validations of a
\* batch that has returned
C10_Witness ==
    \E w \in Workers :
        \E i \in DOMAIN req[w].files :
            /\ pc[w] = "done"
            /\ req[w].op = "batch"
            /\ req[w].files[i].size > LimitBytes
            /\ Took(w, "validate_type", i)
            /\ Took(w, "validate_size", i)
            /\ resp[w].status_code = 200

-----------------------------------------------------------------------------
(* Properties of the functions called on their own *)

Validators == {"validate_image_file", "validate_fuji_file"}

\* the call of function fn has returned or raised
Called(fn) == call.fn = fn /\ call.ret.raised # "pending"

GeneralExtensions ==
    { <<"j","p","g">>, <<"j","p","e","g">>, <<"p","n","g">>, <<"r","a","f">>,
      <<"t","i","f","f">>, <<"t","i","f">> }

VendorExtensions == { <<"j","p","g">>, <<"j","p","e","g">>, <<"r","a","f">> }

\* what follows the last dot of a name
AfterLastDot(name) == SubSeq(name, FindLast(name, ".") + 1, Len(name))

\* the same letter, in whatever case
SameLetter(a, b) ==
    \/ a = b
    \/ \E k \in DOMAIN UpperCase : {a, b} = {UpperCase[k], LowerCase[k]}

\* the name has an extension that is, case aside, one of exts
HasExtensionIn(name, exts) ==
    /\ FindLast(name, ".") # 0
    /\ \E e \in exts :
           /\ Len(e) = Len(AfterLastDot(name))
           /\ \A k \in DOMAIN e : SameLetter(AfterLastDot(name)[k], e[k])

(* C11: validate_image_file returns true for exactly the filenames whose    *)
(* extension is, compared case-insensitively, one of jpg, jpeg, png, raf,   *)
(* tiff, tif; validate_fuji_file does the same with jpg, jpeg, raf; so what *)
(* the vendor validator accepts the general one accepts.                    *)
C11_ValidateType ==
    \A fn \in Validators :
        (Called(fn) /\ call.args[1].kind = "str") =>
            /\ call.ret.raised = "none"
            /\ call.ret.value =
                   HasExtensionIn(call.args[1].s,
                                  IF fn = "validate_fuji_file"
                                  THEN VendorExtensions ELSE GeneralExtensions)
            /\ (fn = "validate_fuji_file" /\ call.ret.value)
                   => validate_image_file(call.args[1].s)

\* the vendor validator accepted a name with an upper-case extension
C11_Witness ==
    /\ Called("validate_fuji_file")
    /\ call.args[1] = Str(<<"a",".","b",".","J","P","E","G">>)
    /\ call.ret.raised = "none"
    /\ call.ret.value

(* C12: the type validators are total: for every filename, a missing (None) *)
(* or empty one and one without or with an empty extension included, they   *)
(* return false and do not raise.  Fails: filename.lower() raises           *)
(* AttributeError for None.                                                 *)
C12_ValidatorsTotal ==
    \A fn \in Validators :
        Called(fn) =>
            /\ call.ret.raised = "none"
            /\ ( \/ call.args[1].kind # "str"
                 \/ FindLast(call.args[1].s, ".") = 0
                 \/ AfterLastDot(call.args[1].s) = <<>> ) => ~call.ret.value

(* C13: validate_file_size accepts every byte count up to 50 MiB            *)
(* (52,428,800, included) and rejects every count above it with a 413 whose *)
(* message states the limit; the content-length check of the middleware     *)
(* rejects with the same limit value.                                       *)
C13_ValidateSizeBoundary ==
    /\ Called("validate_file_size") =>
           IF call.args[1] <= 52428800
           THEN call.ret.raised = "none"
           ELSE /\ call.ret.raised = "HTTPException"
                /\ call.ret.exc.status_code = 413
                /\ call.ret.exc.detail =
                       <<"File size exceeds maximum allowed size of ",
                         "5", "0", ".", "0", " MB">>
    /\ Called("dispatch") =>
           /\ (call.ret.value.status_code = 413) <=> (call.args[1] > 52428800)
           /\ call.ret.value.status_code = 413 =>
                  call.ret.value.detail =
                      <<"File size exceeds maximum allowed size of ",
                        "5", "0", ".", "0", " MB">>

\* a file of exactly 50 MiB was accepted
C13_Witness ==
    /\ Called("validate_file_size")
    /\ call.args[1] = 52428800
    /\ call.ret.raised = "none"

\* the metadata fields a field of the recipe view is read from
SourcesOf(f) ==
    IF f = "FilmSimulation" THEN {"FilmMode", "FilmSimulation"}
    ELSE {recipe_sources[f]}

(* C14: parse_fuji_metadata is total over the records whose values are      *)
(* strings, numbers or null: it never fails, yields "Unknown" for each of   *)
(* the twelve recipe fields whose source is absent, and no "Unknown" for a  *)
(* record that holds every source field.  Fails: a number or null in a      *)
(* field the models declare as str raises a validation error.               *)
C14_DecodeRecipeTotal ==
    Called("parse_fuji_metadata") =>
        /\ call.ret.raised = "none"
        /\ Cardinality(DOMAIN call.ret.value.recipe_details) = 12
        /\ \A f \in DOMAIN call.ret.value.recipe_details :
               /\ SourcesOf(f) \cap DOMAIN call.args[1] = {}
                      => call.ret.value.recipe_details[f] = Unknown
               /\ RecipeFields \subseteq DOMAIN call.args[1]
                      => call.ret.value.recipe_details[f] # Unknown

\* the text a field contributes to the name: nothing when the field is
\* absent or empty
Contribution(md, f) ==
    IF f \in DOMAIN md /\ truthy(md[f]) THEN to_str(md[f]) ELSE <<>>

Underscored(s) == [k \in DOMAIN s |-> IF s[k] = " " THEN "_" ELSE s[k]]

\* the date component: the recorded date without its colons, or the current
\* time when there is none
DateComponent(md) ==
    IF "DateTimeOriginal" \in DOMAIN md /\ md["DateTimeOriginal"].kind = "str"
          /\ md["DateTimeOriginal"].s \notin {<<>>, UnknownDate}
    THEN Underscored(SelectSeq(md["DateTimeOriginal"].s, LAMBDA c : c # ":"))
    ELSE Now

Prefixed(prefix, s, suffix) == IF s = <<>> THEN <<>> ELSE prefix \o s \o suffix

\* date, camera, lens, aperture, shutter, ISO
Components(md) ==
    << DateComponent(md),
       Underscored(Contribution(md, "Model")),
       Underscored(Contribution(md, "LensModel")),
       Prefixed(<<"f">>, Contribution(md, "Aperture"), <<>>),
       Prefixed(<<>>, Contribution(md, "ShutterSpeed"), <<"s">>),
       Prefixed(<<"I","S","O">>, Contribution(md, "ISO"), <<>>) >>

\* the components that are not empty, in their order, with "_" between them
RECURSIVE Joined(_)
Joined(parts) ==
    IF parts = <<>> THEN <<>>
    ELSE IF Head(parts) = <<>> THEN Joined(Tail(parts))
    ELSE IF Joined(Tail(parts)) = <<>> THEN Head(parts)
    ELSE Head(parts) \o <<"_">> \o Joined(Tail(parts))

Forbidden == {"<", ">", ":", "\"", "/", "\\", "|", "?", "*"}

Cleaned(s) == [k \in DOMAIN s |-> IF s[k] \in Forbidden THEN "_" ELSE s[k]]

\* the extension of the original name, with its dot
OriginalExtension(name) == SubSeq(name, FindLast(name, "."), Len(name))

AllStrings(md) == \A f \in DOMAIN md : md[f].kind = "str"

ExampleRecord ==
    Restrict(FullRenameRecord, {"Model", "Aperture", "ISO", "DateTimeOriginal"})

ExampleProposal ==
    <<"2","0","2","4","0","1","0","2","_","0","3","0","4","0","5","_",
      "X","-","T","4","_","f","2",".","8","_","I","S","O","4","0","0",
      ".","j","p","g">>

C16_SanitizeIdempotent ==
    Called("sanitize_filename") =>
        /\ \A k \in DOMAIN call.ret.value : call.ret.value[k] \notin Forbidden
        /\ sanitize_filename(call.ret.value) = call.ret.value

(* C17: when the joined name exceeds 255 characters, the sanitized name is  *)
(* at most 255 characters long and the proposed filename ends with the      *)
(* extension of the original name.  Fails: a joined name whose last dot is  *)
(* followed by more than 254 characters is returned longer than the limit.  *)
C17_TruncatedToLimit ==
    (Called("propose_filename") /\ call.ret.raised = "none"
        /\ Len(Joined(Components(call.args[2]))) > 255) =>
        LET ext == OriginalExtension(call.args[1])
        IN /\ Len(call.ret.value) - Len(ext) <= 255
           /\ Len(call.ret.value) >= Len(ext)
           /\ SubSeq(call.ret.value, Len(call.ret.value) - Len(ext) + 1,
                     Len(call.ret.value)) = ext

\* the segments of a path
RECURSIVE Segments(_)
Segments(path) ==
    IF Find(path, "/") = 0 THEN <<path>>
    ELSE <<SubSeq(path, 1, Find(path, "/") - 1)>>
             \o Segments(SubSeq(path, Find(path, "/") + 1, Len(path)))

\* walking the segments from a directory never leaves it
RECURSIVE StaysBelow(_, _)
StaysBelow(segments, depth) ==
    IF segments = <<>> THEN TRUE
    ELSE IF Head(segments) = <<".", ".">>
    THEN depth > 0 /\ StaysBelow(Tail(segments), depth - 1)
    ELSE IF Head(segments) \in {<<>>, <<".">>}
    THEN StaysBelow(Tail(segments), depth)
    ELSE StaysBelow(Tail(segments), depth + 1)

\* the path names a place inside the transient directory
InsideTempDir(path) ==
    /\ Len(path) > Len(TEMP_DIR) + 1
    /\ SubSeq(path, 1, Len(TEMP_DIR) + 1) = TEMP_DIR \o <<"/">>
    /\ StaysBelow(Segments(SubSeq(path, Len(TEMP_DIR) + 2, Len(path))), 0)

StorageFailures == {"open_failed", "write_failed", "unlink_failed"}

(* C18: a request in which the transient file could not be written or could *)
(* not be removed is answered with a 5xx, single-file and batch alike.      *)
(* Fails: analyze_batch catches the 500 HTTPException of save_upload_file,  *)
(* records it for the file and answers 200.                                 *)
C18_StorageFailureIs5xx ==
    \A w \in Workers :
        (pc[w] = "done" /\ \E ev \in StorageFailures : TookAny(w, ev)) =>
            resp[w].status_code \in 500..599

(* C19: the availability of the extraction tool is checked before any work  *)
(* of a request: when the tool is unavailable at the check, the request is  *)
(* answered 500 at once and no validation, materialization or extraction    *)
(* step is taken for any of its files.                                      *)
C19_ToolCheckedFirst ==
    \A w \in Workers :
        TookAny(w, "tool_unavailable") =>
            /\ pc[w] = "done"
            /\ resp[w].status_code = 500
            /\ log[w] = <<Event("tool_unavailable", 0)>>
            /\ idx[w] = 0
            /\ OwnFiles(w) = {}
            /\ temp_file_path[w] = NoPath
            /\ metadata[w] = NotExtracted

\* a batch of two files was refused because the tool was unavailable
C19_Witness ==
    \E w \in Workers :
        /\ pc[w] = "done"
        /\ req[w].op = "batch"
        /\ Len(req[w].files) = 2
        /\ TookAny(w, "tool_unavailable")
        /\ resp[w].status_code = 500

(* C20: for every declared filename that passes type validation, with path  *)
(* separators, parent-directory segments or an absolute path in it, the     *)
(* path of the transient file lies inside the transient directory: no file  *)
(* outside it is created, overwritten or removed.  Fails: the path is       *)
(* temp_dir / file.filename, the declared filename taken as it is.          *)
C20_PathsInsideTempDir ==
    /\ \A w \in Workers :
           temp_file_path[w] # NoPath => InsideTempDir(temp_file_path[w])
    /\ \A p \in Paths : fs[p] # Absent => InsideTempDir(p)

(* C21: when the extraction of a single-file operation has failed and the  *)
(* removal of the transient file fails as well, the client is answered the  *)
(* extraction error, not the cleanup failure.  Fails: the exception unlink  *)
(* raises inside the finally block replaces the one in flight, and the      *)
(* client gets the generic answer for unexpected errors.                    *)
C21_CleanupKeepsPrimaryError ==
    \A w \in Workers :
        ( /\ pc[w] = "done"
          /\ req[w].op \in SingleFile
          /\ pending[w].exc # NoExc
          /\ TookAny(w, "unlink_failed") ) =>
            resp[w] = ErrorResponse(pending[w].exc)

\* the positions at which the tool was run on file i of the request of w
ToolRuns(w, i) == { k \in DOMAIN log[w] : log[w][k] = Event("tool", i) }

(* C22: no retry: the extraction tool is run at most once per materialized  *)
(* file, right after the file was saved; a failed run is reported at once:  *)
(* a single-file operation has the 500 in flight and answers a 5xx, a batch *)
(* records the failure for that file and, the cleanup of the file done,     *)
(* goes on with the next file.                                              *)
C22_NoRetry ==
    \A w \in Workers :
        /\ \A k \in DOMAIN log[w] :
               log[w][k].ev = "tool" =>
                   /\ k > 1
                   /\ log[w][k - 1] = Event("saved", log[w][k].i)
                   /\ ToolRuns(w, log[w][k].i) = {k}
        /\ (JustExtracted(w) /\ ~metadata[w].ok) =>
               IF req[w].op = "batch"
               THEN /\ errors[w] # <<>>
                    /\ errors[w][Len(errors[w])] =
                           [filename |-> CurFile(w).filename,
                            error |-> metadata[w].exc.detail]
               ELSE /\ pending[w].exc.type = "HTTPException"
                    /\ pending[w].exc.status_code = 500
        /\ (pc[w] = "done" /\ req[w].op \in SingleFile /\ pending[w].exc # NoExc)
               => resp[w].status_code \in 500..599
        /\ (pc[w] = "done" /\ req[w].op = "batch") =>
               \A i \in 1..(Len(req[w].files) - 1) :
                   (Took(w, "tool", i) /\ Took(w, "release", i))
                       => Took(w, "validate_type", i + 1)

\* a batch of two files went on to its second file after the tool had failed
\* on the first, and ran the tool once on each
C22_Witness ==
    \E w \in Workers :
        /\ pc[w] = "done"
        /\ req[w].op = "batch"
        /\ Len(req[w].files) = 2
        /\ Len(errors[w]) = 2
        /\ Cardinality(ToolRuns(w, 1)) = 1
        /\ Cardinality(ToolRuns(w, 2)) = 1
        /\ resp[w].status_code = 200

=============================================================================
